---- MODULE Spec2Model ----
(***************************************************************************)
(* Model of the flashcard scheduler of RussianVocabMemory: the            *)
(* FlashcardMode component (src/unnamed/part_000, lines 436-1027) and the  *)
(* progress store it shares with App.tsx.                                  *)
(*                                                                         *)
(* React semantics that the model keeps:                                   *)
(*  - a handler or effect reads the state and props of the render that     *)
(*    created it; useState setters take effect at the next render;         *)
(*  - the callback given to setTimeout in handleNext keeps the             *)
(*    selectNextSmartCard, staticIndex and staticQueue of the render in    *)
(*    which the grade was given; only localStorage is read afresh;         *)
(*  - setGroupLastPicked(prev => ...) is applied to the state at the time  *)
(*    the update is processed.                                             *)
(***************************************************************************)
EXTENDS Integers, Sequences, FiniteSets, TLC

(***************************************************************************)
(* Bounds of the model                                                     *)
(***************************************************************************)
NumItems == 3          \* lemmas of the word list are 1..NumItems
MaxNow == 3            \* Date.now() is 1..MaxNow at the calls of handleNext
MaxLimit == 2          \* the numeric session limit
MaxThreshold == 2      \* learningThreshold is 0 or MaxThreshold
MaxInits == 2          \* mounts and changes of a prop in one behaviour
MaxPending == 2        \* pick timers that can be pending at once

(***************************************************************************)
(* Values                                                                  *)
(***************************************************************************)
null == 0
GroupTypes == {"new", "hard", "learning", "mastered"}
Directions == {"ru-zh", "zh-ru"}
Strategies == {"smart_sort", "sequential", "random", "hard_only"}
Lemmas == 1..NumItems
AllItems == [i \in 1..NumItems |-> i]
all == {}
Limits == {all, {MaxLimit}}
Thresholds == {0, MaxThreshold}
ZeroTicks == [g \in GroupTypes |-> 0]

Max(a, b) == IF a >= b THEN a ELSE b
Min(a, b) == IF a <= b THEN a ELSE b

(***************************************************************************)
(* The Performance Store: localStorage['ruvocab-progress']                 *)
(***************************************************************************)
getStorageKey(dir, lemma) == <<dir, lemma>>

EmptyStats == <<>>

\* What the item holds.  "object": the JSON of an object, data being its
\* entries; "unreadable": no item, or a text JSON.parse rejects; "null",
\* "number", "array": the JSON texts null, a number and [], which JSON.parse
\* accepts and returns as they are.
StoreKinds == {"object", "unreadable", "null", "number", "array"}

\* getStats: the entries a property read of the returned value can find: {}
\* is returned when the item is absent or JSON.parse throws, and a number or
\* an empty array has no property of the name of a key
getStats(st) == IF st.kind = "object" THEN st.data ELSE EmptyStats

\* stats[key] on the value getStats returns throws a TypeError (null)
readThrows(st) == st.kind = "null"

\* stats[key] = {...} on the value getStats returns throws a TypeError: null,
\* or a primitive in the strict mode of an ES module
writeThrows(st) == st.kind \in {"null", "number"}

\* localStorage.setItem(STATS_KEY, JSON.stringify(stats))
setItem(stats) == [kind |-> "object", data |-> stats]

\* the item after setItem(JSON.stringify(stats)), stats being the value
\* getStats returned for st with the entries assigned to it: JSON.stringify
\* of an array leaves out the properties that are not indexes
stringified(st, stats) == IF st.kind = "array" THEN st ELSE setItem(stats)

\* the item is absent, or its text is not JSON
Unreadable == [kind |-> "unreadable", data |-> EmptyStats]

\* the item holds JSON that is not an object
Malformed(kind) == [kind |-> kind, data |-> EmptyStats]

\* stats[key] is undefined
NoRecord(stats, key) == key \notin DOMAIN stats

\* stats[key]?.lastReviewed || 0
lastReviewedOf(stats, key) ==
  IF NoRecord(stats, key) THEN 0 ELSE stats[key].lastReviewed

\* currentStat?.streak || 0
streakOf(stats, key) ==
  IF NoRecord(stats, key) THEN 0 ELSE stats[key].streak

\* PutRecord that loses the assignment
PutNothing(stats, key, rec) == stats

\* PutRecord into an empty object
PutRecordAlone(stats, key, rec) == [k \in {key} |-> rec]

\* stats[key] = rec
PutRecord(stats, key, rec) ==
  [k \in (DOMAIN stats) \cup {key} |-> IF k = key THEN rec ELSE stats[k]]

(***************************************************************************)
(* selectNextSmartCard, step 1: bucketize the items                        *)
(***************************************************************************)
EmptyGroups == [g \in GroupTypes |-> <<>>]

\* GroupOfItem with the learning test off by one (streak <= 3)
GroupOfItemOffByOne(stats, key) ==
  IF NoRecord(stats, key)
    THEN "new"
    ELSE IF stats[key].difficulty = "hard" \/ stats[key].streak = 0
           THEN "hard"
           ELSE IF stats[key].streak <= 3
                  THEN "learning"
                  ELSE "mastered"

\* GroupOfItem with Mastered from streak 2 on
GroupOfItemMasteredAtTwo(stats, key) ==
  IF NoRecord(stats, key)
    THEN "new"
    ELSE IF stats[key].difficulty = "hard" \/ stats[key].streak = 0
           THEN "hard"
           ELSE IF stats[key].streak < 2
                  THEN "learning"
                  ELSE "mastered"

\* the if/else chain of the forEach body: the bucket one item is pushed to
GroupOfItem(stats, key) ==
  IF NoRecord(stats, key)
    THEN "new"
    ELSE IF stats[key].difficulty = "hard" \/ stats[key].streak = 0
           THEN "hard"
           ELSE IF stats[key].streak < 3
                  THEN "learning"
                  ELSE "mastered"

\* items.forEach(...): the buckets and activeLoadCount after the loop
RECURSIVE Bucketize(_, _, _, _)
Bucketize(its, dir, stats, acc) ==
  IF its = <<>>
    THEN acc
    ELSE LET item == Head(its)
             g == GroupOfItem(stats, getStorageKey(dir, item))
         IN  Bucketize(Tail(its), dir, stats,
               [groups |-> [acc.groups EXCEPT ![g] = Append(@, item)],
                activeLoadCount |->
                  IF g \in {"hard", "learning"}
                    THEN acc.activeLoadCount + 1
                    ELSE acc.activeLoadCount])

Buckets(its, dir, stats) ==
  Bucketize(its, dir, stats, [groups |-> EmptyGroups, activeLoadCount |-> 0])

(***************************************************************************)
(* step 2: load cap; steps 3 and 4: weights                                *)
(***************************************************************************)
\* IsCapped with the comparison turned round
IsCappedReversed(activeLoadCount, learningThreshold) ==
  activeLoadCount <= learningThreshold

IsCapped(activeLoadCount, learningThreshold) ==
  activeLoadCount >= learningThreshold

STALENESS_BONUS == 2

\* baseWeights with no weight for Mastered
baseWeightsNoMastered(isCapped) ==
  [g \in GroupTypes |->
     CASE g = "new" -> IF isCapped THEN 0 ELSE 40
       [] g = "hard" -> 100
       [] g = "learning" -> 60
       [] g = "mastered" -> 0]

baseWeights(isCapped) ==
  [g \in GroupTypes |->
     CASE g = "new" -> IF isCapped THEN 0 ELSE 40
       [] g = "hard" -> 100
       [] g = "learning" -> 60
       [] g = "mastered" -> 5]

\* safeStaleness without the floor at 0
rawStaleness(tk, glp, type) == tk - glp[type]

\* Math.max(0, tick - groupLastPicked[type])
safeStaleness(tk, glp, type) == Max(0, tk - glp[type])

\* finalWeights without the early return for a capped New group
finalWeightsNoCapReturn(groups, isCapped, tk, glp) ==
  [type \in GroupTypes |->
     IF Len(groups[type]) = 0
       THEN 0
       ELSE baseWeights(isCapped)[type]
              + safeStaleness(tk, glp, type) * STALENESS_BONUS]

finalWeights(groups, isCapped, tk, glp) ==
  [type \in GroupTypes |->
     IF Len(groups[type]) = 0
       THEN 0
       ELSE IF type = "new" /\ isCapped
              THEN 0
              ELSE baseWeights(isCapped)[type]
                     + safeStaleness(tk, glp, type) * STALENESS_BONUS]

totalWeight(w) == w["new"] + w["hard"] + w["learning"] + w["mastered"]

(***************************************************************************)
(* step 5: weighted random group.  randomPointer is Math.random() *        *)
(* totalWeight; the weights are integers, so the walk only depends on the  *)
(* integer part of the pointer, which ranges over 0..totalWeight-1.        *)
(***************************************************************************)
WalkOrder == <<"hard", "learning", "new", "mastered">>

\* Walk with the test randomPointer <= w
RECURSIVE WalkInclusive(_, _, _)
WalkInclusive(w, randomPointer, i) ==
  IF i > Len(WalkOrder)
    THEN "new"
    ELSE IF randomPointer <= w[WalkOrder[i]]
           THEN WalkOrder[i]
           ELSE WalkInclusive(w, randomPointer - w[WalkOrder[i]], i + 1)

\* Walk without the line randomPointer -= w
RECURSIVE WalkNoSubtract(_, _, _)
WalkNoSubtract(w, randomPointer, i) ==
  IF i > Len(WalkOrder)
    THEN "new"
    ELSE IF randomPointer < w[WalkOrder[i]]
           THEN WalkOrder[i]
           ELSE WalkNoSubtract(w, randomPointer, i + 1)

RECURSIVE Walk(_, _, _)
Walk(w, randomPointer, i) ==
  IF i > Len(WalkOrder)
    THEN "new"
    ELSE IF randomPointer < w[WalkOrder[i]]
           THEN WalkOrder[i]
           ELSE Walk(w, randomPointer - w[WalkOrder[i]], i + 1)

\* selectGroup that ignores the random pointer
selectGroupFirst(w, randomPointer) == Walk(w, 0, 1)

selectGroup(w, randomPointer) == Walk(w, randomPointer, 1)

(***************************************************************************)
(* step 6: item within the group.  Array.prototype.sort is stable.         *)
(***************************************************************************)
RECURSIVE InsertByTime(_, _, _, _)
InsertByTime(sorted, item, dir, stats) ==
  IF sorted = <<>>
    THEN <<item>>
    ELSE LET last == sorted[Len(sorted)]
         IN  IF lastReviewedOf(stats, getStorageKey(dir, last))
                  <= lastReviewedOf(stats, getStorageKey(dir, item))
               THEN Append(sorted, item)
               ELSE Append(InsertByTime(SubSeq(sorted, 1, Len(sorted) - 1),
                                        item, dir, stats), last)

RECURSIVE SortFrom(_, _, _, _)
SortFrom(cands, dir, stats, sorted) ==
  IF cands = <<>>
    THEN sorted
    ELSE SortFrom(Tail(cands), dir, stats,
                  InsertByTime(sorted, Head(cands), dir, stats))

\* sortCandidates from the latest lastReviewed to the oldest
latestFirst(cands, dir, stats) ==
  LET sorted == SortFrom(cands, dir, stats, <<>>)
  IN  [i \in 1..Len(sorted) |-> sorted[Len(sorted) + 1 - i]]

\* sortCandidates that leaves the bucket in pool order
unsortedCandidates(cands, dir, stats) == cands

\* candidates.sort((a, b) => timeA - timeB)
sortCandidates(cands, dir, stats) == SortFrom(cands, dir, stats, <<>>)

\* poolSize without the window of 3
poolSizeWhole(cands) == Len(cands)

\* Math.min(candidates.length, 3)
poolSize(cands) == Min(Len(cands), 3)

(***************************************************************************)
(* selectNextSmartCard as a whole.  PickCycle holds the values the         *)
(* function computes before the random draws; SmartResults is the set of   *)
(* values it can return, one for every draw of the two Math.random() calls.*)
(***************************************************************************)
PickCycle(its, dir, thr, tk, glp, stats) ==
  LET b == Buckets(its, dir, stats)
      capped == IsCapped(b.activeLoadCount, thr)
      w == finalWeights(b.groups, capped, tk, glp)
  IN  [items |-> its,
       direction |-> dir,
       learningThreshold |-> thr,
       tick |-> tk,
       groupLastPicked |-> glp,
       stats |-> stats,
       groups |-> b.groups,
       activeLoadCount |-> b.activeLoadCount,
       isCapped |-> capped,
       weights |-> w,
       total |-> totalWeight(w)]

NoResult == [item |-> null, group |-> "none"]

\* the values of randomPointer (integer part) and of randomIndex
Pointers(total) == 0..(total - 1)
Indexes(cands) == 0..(poolSize(cands) - 1)

\* { item: candidates[randomIndex], group: selectedGroup }
ResultFor(c, dir, stats, randomPointer, randomIndex) ==
  LET selectedGroup == selectGroup(c.weights, randomPointer)
      candidates == sortCandidates(c.groups[selectedGroup], dir, stats)
  IN  [item |-> candidates[randomIndex + 1], group |-> selectedGroup]

SmartResults(c, dir, stats) ==
  IF c.total <= 0
    THEN {NoResult}
    ELSE UNION {
           { [item |-> sortCandidates(c.groups[g], dir, stats)[j + 1],
              group |-> g] : j \in Indexes(c.groups[g]) }
           : g \in {selectGroup(c.weights, r) : r \in Pointers(c.total)} }

(***************************************************************************)
(* State                                                                   *)
(***************************************************************************)
VARIABLES
  items,              \* prop items: the pool, a sequence of lemmas
  direction,          \* prop direction
  strategy,           \* prop strategy
  limit,              \* prop limit: all, or {n}
  learningThreshold,  \* prop learningThreshold
  mounted,            \* the component is rendered by App
  currentCard,        \* useState currentCard (null or a lemma)
  reviewedCount,      \* useState reviewedCount
  sessionFinished,    \* useState sessionFinished
  isWorkloadCapped,   \* useState isWorkloadCapped
  tick,               \* useState tick
  groupLastPicked,    \* useState groupLastPicked
  staticQueue,        \* useState staticQueue
  staticIndex,        \* useState staticIndex
  storage,            \* localStorage['ruvocab-progress']
  now,                \* the last value returned by Date.now()
  timers,             \* pending setTimeout callbacks of handleNext, oldest first
  pick,               \* what the pick cycle run by the last step computed
  failed,             \* a render or an effect threw: React has removed the app
  scopeStats,         \* useMemo scopeStats: the counts of its last computation
  graded,             \* history: the keys graded easy or hard since the last
                      \* reset of their direction
  lastCycle,          \* history: the last pick cycle of the session
  analysis,           \* useState analysis: null, or the lemma it analyses
  loadingAI,          \* useState loadingAI
  fetches,            \* the calls of analyzeWordWithGemini not yet settled:
                      \* the lemma each was made for
  grades,             \* history, kept by GradeSpec: the last recorded
                      \* grades of every key
  inits               \* mounts and changes of a prop so far

props == <<items, direction, strategy, limit, learningThreshold>>
session == <<currentCard, reviewedCount, sessionFinished, isWorkloadCapped,
             tick, groupLastPicked, staticQueue, staticIndex>>
vars == <<items, direction, strategy, limit, learningThreshold, mounted,
          currentCard, reviewedCount, sessionFinished, isWorkloadCapped,
          tick, groupLastPicked, staticQueue, staticIndex,
          storage, now, timers, pick, failed, scopeStats, graded, lastCycle,
          analysis, loadingAI, fetches, grades, inits>>

\* the pools the content layer supplies: no word matches the filter, or all do
Pools == {<<>>, AllItems}

\* pick: the last step ran no pick cycle and took no grading input
NoPick == [kind |-> "none"]

\* pick: the last step ran the pick cycle c ("init": by the initialization
\* effect, "next": by a timer of handleNext, "call": on its own) and got res
PickLog(kind, c, res, nextTick) ==
  [kind |-> kind, cycle |-> c, result |-> res, nextTick |-> nextTick]

\* pick: the last step was handleResetProgress for direction dir, which
\* counted deletedCount records of that direction
ResetLog(dir, deletedCount) ==
  [kind |-> "reset", direction |-> dir, deletedCount |-> deletedCount]

\* pick: the last step threw a TypeError
ErrorLog == [kind |-> "error"]

\* pick: the last step built the static queue ("queue") or advanced in it
\* ("advance"); found: there is a card at the index
StaticLog(kind, found) == [kind |-> kind, found |-> found]

\* pick: the last step was handleNext(difficulty) on card
GradeLog(difficulty, card) ==
  [kind |-> "grade", difficulty |-> difficulty, card |-> card]

\* the permutations of a sequence (pool.sort(() => Math.random() - 0.5))
Shuffles(seq) ==
  LET n == Len(seq)
  IN  { [i \in 1..n |-> seq[f[i]]] :
          f \in {g \in [1..n -> 1..n] : \A i, j \in 1..n : g[i] = g[j] => i = j} }

\* hardOnly without the filter
hardOnlyUnfiltered(its, dir, stats) == its

\* pool.filter(s && (s.difficulty === 'hard' || s.streak === 0))
RECURSIVE hardOnly(_, _, _)
hardOnly(its, dir, stats) ==
  IF its = <<>>
    THEN <<>>
    ELSE LET key == getStorageKey(dir, Head(its))
             keep == /\ ~NoRecord(stats, key)
                     /\ (stats[key].difficulty = "hard" \/ stats[key].streak = 0)
         IN  (IF keep THEN <<Head(its)>> ELSE <<>>)
               \o hardOnly(Tail(its), dir, stats)

\* pool.slice(0, limit) when limit !== 'all'
sliceToLimit(pool, lim) ==
  IF lim = all
    THEN pool
    ELSE LET n == CHOOSE n \in lim : TRUE
         IN  SubSeq(pool, 1, Min(n, Len(pool)))

\* the static queues the initialization effect can build
StaticQueues(its, dir, strat, lim, stats) ==
  LET pools == CASE strat = "hard_only" -> Shuffles(hardOnly(its, dir, stats))
                 [] strat = "random" -> Shuffles(its)
                 [] OTHER -> {its}
  IN  {sliceToLimit(pool, lim) : pool \in pools}

(***************************************************************************)
(* scopeStats (lines 764-781): useMemo with the dependencies [items, tick, *)
(* getStats, getStorageKey]; getStorageKey changes with direction.         *)
(***************************************************************************)
ZeroCounts == [g \in GroupTypes |-> 0]

\* the if/else chain of the forEach body of scopeStats
CountedAs(stats, key) ==
  IF NoRecord(stats, key)
    THEN "new"
    ELSE IF stats[key].difficulty = "hard" \/ stats[key].streak = 0
           THEN "hard"
           ELSE IF stats[key].streak >= 3
                  THEN "mastered"
                  ELSE "learning"

\* items.forEach(...): counts after the loop
RECURSIVE countItems(_, _, _, _)
countItems(its, dir, stats, counts) ==
  IF its = <<>>
    THEN counts
    ELSE countItems(Tail(its), dir, stats,
           [counts EXCEPT ![CountedAs(stats, getStorageKey(dir, Head(its)))] = @ + 1])

\* the value the memo function returns
liveCounts(its, dir, stats) == countItems(its, dir, stats, ZeroCounts)

\* the memo after a render: computed again when a dependency has changed
memoAfter(recompute, its, dir, st) ==
  IF recompute THEN liveCounts(its, dir, getStats(st)) ELSE scopeStats

(***************************************************************************)
(* The history grades: for every key, the grades recorded for it since the *)
(* last reset of its direction, oldest first, at most the last three.      *)
(* Only a behaviour that starts with EmptyHistory keeps it.                *)
(***************************************************************************)
NoHistory == [kept |-> FALSE, last |-> <<>>]
EmptyHistory == [kept |-> TRUE, last |-> <<>>]

lastThree(seq) ==
  IF Len(seq) <= 3 THEN seq ELSE SubSeq(seq, Len(seq) - 2, Len(seq))

\* handleNext has written a record for key
noteGrade(h, key, difficulty) ==
  IF ~h.kept
    THEN h
    ELSE [kept |-> TRUE,
          last |-> PutRecord(h.last, key,
                     lastThree(Append(IF key \in DOMAIN h.last
                                        THEN h.last[key]
                                        ELSE <<>>,
                                      difficulty)))]

\* handleResetProgress for the direction dir
noteReset(h, dir) ==
  IF ~h.kept
    THEN h
    ELSE [kept |-> TRUE,
          last |-> [k \in {key \in DOMAIN h.last : key[1] # dir} |-> h.last[k]]]

(***************************************************************************)
(* useState initial values (lines 470-490)                                 *)
(***************************************************************************)
FreshSession ==
  /\ currentCard = null
  /\ reviewedCount = 0
  /\ sessionFinished = FALSE
  /\ isWorkloadCapped = FALSE
  /\ tick = 0
  /\ groupLastPicked = ZeroTicks
  /\ staticQueue = <<>>
  /\ staticIndex = 0
  /\ analysis = null
  /\ loadingAI = FALSE

\* the effect of lines 679-684, which runs after a render in which
\* currentCard is another one than in the render before
resetUI ==
  /\ analysis' = IF currentCard' # currentCard THEN null ELSE analysis
  /\ loadingAI' = IF currentCard' # currentCard THEN FALSE ELSE loadingAI

\* the app before the flashcard view is opened, with the Count select at lim
\* and the item of the store being st
Start(lim, st) ==
  /\ items = AllItems
  /\ direction = "ru-zh"
  /\ strategy = "smart_sort"
  /\ limit = lim
  /\ learningThreshold = MaxThreshold
  /\ mounted = FALSE
  /\ FreshSession
  /\ storage = st
  /\ now = 0
  /\ timers = <<>>
  /\ pick = NoPick
  /\ failed = FALSE
  /\ scopeStats = ZeroCounts
  /\ graded = {}
  /\ lastCycle = NoPick
  /\ fetches = <<>>
  /\ grades = NoHistory
  /\ inits = 0

\* the defaults of App (App.tsx lines 65-68) and no item in localStorage
Init == Start(all, Unreadable)

(***************************************************************************)
(* The initialization effect (lines 637-677), run by the render with props *)
(* its, dir, strat, lim, thr.  selectNextSmartCard is the one of that      *)
(* render: it reads the tick and groupLastPicked of the state as rendered, *)
(* before the setTick(0) and setGroupLastPicked of the effect apply.       *)
(***************************************************************************)
Initialization(its, dir, strat, lim, thr) ==
  /\ reviewedCount' = 0
  /\ sessionFinished' = FALSE
  /\ tick' = 0
  /\ groupLastPicked' = ZeroTicks
  /\ IF strat = "smart_sort"
       THEN LET stats == getStats(storage)
                c == PickCycle(its, dir, thr, tick, groupLastPicked, stats)
            IN  \E res \in SmartResults(c, dir, stats) :
                  /\ isWorkloadCapped' = c.isCapped
                  /\ currentCard' = IF res # NoResult THEN res.item ELSE currentCard
                  /\ pick' = PickLog("init", c, res, 0)
                  /\ lastCycle' = PickLog("init", c, res, 0)
                  /\ UNCHANGED <<staticQueue, staticIndex>>
       ELSE \E pool \in StaticQueues(its, dir, strat, lim, getStats(storage)) :
              /\ staticQueue' = pool
              /\ staticIndex' = 0
              /\ currentCard' = IF pool = <<>> THEN null ELSE pool[1]
              /\ pick' = StaticLog("queue", pool # <<>>)
              /\ lastCycle' = NoPick
              /\ UNCHANGED isWorkloadCapped

\* items.forEach(item => ... stats[getStorageKey(item.lemma)] ...) throws at
\* its first item (scopeStats, line 769, during the render; lines 523-525)
forEachThrows(its, st) == readThrows(st) /\ its # <<>>

\* an uncaught TypeError while rendering: React removes the whole tree
RenderFails ==
  /\ failed' = TRUE
  /\ pick' = ErrorLog
  /\ UNCHANGED <<session, scopeStats, lastCycle>>

\* App renders FlashcardMode (viewMode 'flashcard'); the pool is the current
\* filter result
Mount(its) ==
  /\ ~failed
  /\ ~mounted
  /\ items' = its
  /\ inits < MaxInits
  /\ inits' = inits + 1
  /\ IF forEachThrows(its, storage)
       THEN /\ RenderFails
            /\ UNCHANGED mounted
       ELSE /\ mounted' = TRUE
            /\ failed' = FALSE
            /\ scopeStats' = memoAfter(TRUE, its, direction, storage)
            /\ Initialization(its, direction, strategy, limit, learningThreshold)
  /\ resetUI
  /\ UNCHANGED <<direction, strategy, limit, learningThreshold, storage, now,
                 timers, graded, fetches, grades>>

\* A render with new props while the component stays mounted: one of the
\* dependencies [items, strategy, limit, direction, learningThreshold] of the
\* effect differs, so it runs again.  Pending timers stay.  newItems: items
\* is another array than before.  The effect's setTick(0) leads to the render
\* whose tick the memo of scopeStats compares with the one before the step.
Rerender(newItems, its, dir, strat, lim, thr) ==
  /\ ~failed
  /\ mounted
  /\ inits < MaxInits
  /\ inits' = inits + 1
  /\ items' = its
  /\ direction' = dir
  /\ strategy' = strat
  /\ limit' = lim
  /\ learningThreshold' = thr
  /\ IF forEachThrows(its, storage)
       THEN RenderFails
       ELSE /\ failed' = FALSE
            /\ scopeStats' =
                 memoAfter(newItems \/ dir # direction \/ tick # 0,
                           its, dir, storage)
            /\ Initialization(its, dir, strat, lim, thr)
  /\ resetUI
  /\ UNCHANGED <<mounted, storage, now, timers, graded, fetches, grades>>

\* a new items array (a filter result, possibly of the same content)
SetItems(its) ==
  Rerender(TRUE, its, direction, strategy, limit, learningThreshold)

\* App.tsx line 262: the direction button
SetDirection(dir) ==
  /\ dir # direction
  /\ Rerender(FALSE, items, dir, strategy, limit, learningThreshold)

\* App.tsx line 278: the Mode select
SetStrategy(strat) ==
  /\ strat # strategy
  /\ Rerender(FALSE, items, direction, strat, limit, learningThreshold)

\* App.tsx line 302: the Count select
SetLimit(lim) ==
  /\ lim # limit
  /\ Rerender(FALSE, items, direction, strategy, lim, learningThreshold)

\* App.tsx line 322: the Load select
SetThreshold(thr) ==
  /\ thr # learningThreshold
  /\ Rerender(FALSE, items, direction, strategy, limit, thr)

\* App.tsx lines 351-354: 'Review All' on the Session Complete screen.  It
\* restores the default strategy and limit, so it cannot run twice in a row.
onResetFilter ==
  /\ ~failed
  /\ mounted
  /\ currentCard = null \/ sessionFinished
  /\ strategy # "smart_sort" \/ limit # all
  /\ strategy' = "smart_sort"
  /\ limit' = all
  /\ Initialization(items, direction, "smart_sort", all, learningThreshold)
  /\ scopeStats' = memoAfter(tick # 0, items, direction, storage)
  /\ resetUI
  /\ UNCHANGED <<items, direction, learningThreshold, mounted, storage, now,
                 timers, failed, graded, fetches, grades, inits>>

\* onExit / leaving the flashcard view: the component state is discarded and
\* the state setters of its pending timers no longer have any effect
Unmount ==
  /\ ~failed
  /\ mounted
  /\ mounted' = FALSE
  /\ currentCard' = null
  /\ reviewedCount' = 0
  /\ sessionFinished' = FALSE
  /\ isWorkloadCapped' = FALSE
  /\ tick' = 0
  /\ groupLastPicked' = ZeroTicks
  /\ staticQueue' = <<>>
  /\ staticIndex' = 0
  /\ timers' = <<>>
  /\ pick' = NoPick
  /\ scopeStats' = ZeroCounts
  /\ lastCycle' = NoPick
  /\ analysis' = null
  /\ loadingAI' = FALSE
  /\ fetches' = <<>>
  /\ UNCHANGED <<items, direction, strategy, limit, learningThreshold, storage,
                 now, failed, graded, grades, inits>>

(***************************************************************************)
(* handleNext (lines 688-746).  The Hard and Good buttons exist only when  *)
(* the card is rendered, i.e. not on the 'Session Complete' screen of line *)
(* 792; difficulty "none" is the call handleNext() without an argument.    *)
(***************************************************************************)
Decisions == {"easy", "hard", "none"}

\* line 792: the 'Session Complete' view is rendered instead of the card
FinishedView == mounted /\ ~failed /\ (currentCard = null \/ sessionFinished)

\* line 801: the note 'New words are currently paused ...' of that view
cappedNote == isWorkloadCapped /\ strategy = "smart_sort"

\* CardShown with the grading buttons taken away while an analysis is loading
CardShownIdle ==
  mounted /\ currentCard # null /\ ~sessionFinished /\ ~loadingAI

\* CardShown with the card view rendered on a finished session as well
CardShownWhenFinished == mounted /\ currentCard # null

CardShown == mounted /\ currentCard # null /\ ~sessionFinished

\* newStreak that counts a hard grade like an easy one
newStreakNoReset(difficulty, currentStreak) == currentStreak + 1

\* recorded that takes the missing argument for a grade
recordedAlways(difficulty) == TRUE

\* if (difficulty): handleNext() without an argument records nothing
recorded(difficulty) == difficulty # "none"

\* newStreak that leaves the streak as it is for an easy grade
newStreakEasyKeeps(difficulty, currentStreak) ==
  IF difficulty = "hard" THEN 0 ELSE currentStreak

\* newStreak
newStreak(difficulty, currentStreak) ==
  IF difficulty = "hard" THEN 0 ELSE currentStreak + 1

\* step 1 of handleNext: the stats object written back for a recorded grade
gradedStats(stats, key, difficulty, time) ==
  PutRecord(stats, key,
            [difficulty |-> difficulty,
             lastReviewed |-> time,
             streak |-> newStreak(difficulty, streakOf(stats, key))])

\* limitReached that never holds
limitNeverReached(lim, newCount) == FALSE

\* limitReached with newCount > limit
limitExceeded(lim, newCount) == lim # all /\ \E n \in lim : newCount > n

\* limit !== 'all' && newCount >= limit
limitReached(lim, newCount) == lim # all /\ \E n \in lim : newCount >= n

\* Closure whose nextTick is the tick before the increment
ClosureOldTick ==
  [strategy |-> strategy,
   items |-> items,
   direction |-> direction,
   learningThreshold |-> learningThreshold,
   tick |-> tick,
   groupLastPicked |-> groupLastPicked,
   staticIndex |-> staticIndex,
   staticQueue |-> staticQueue,
   nextTick |-> tick]

\* what the setTimeout callback keeps of the render that scheduled it
Closure ==
  [strategy |-> strategy,
   items |-> items,
   direction |-> direction,
   learningThreshold |-> learningThreshold,
   tick |-> tick,
   groupLastPicked |-> groupLastPicked,
   staticIndex |-> staticIndex,
   staticQueue |-> staticQueue,
   nextTick |-> tick + 1]

\* steps 2 and 3 of handleNext
countAndAdvance ==
  /\ reviewedCount' = reviewedCount + 1
  /\ IF limitReached(limit, reviewedCount + 1)
       THEN /\ sessionFinished' = TRUE
            /\ UNCHANGED <<tick, timers>>
       ELSE /\ Len(timers) < MaxPending
            /\ tick' = tick + 1
            /\ timers' = Append(timers, Closure)
            /\ UNCHANGED sessionFinished

handleNext(difficulty) ==
  /\ ~failed
  /\ CardShown
  /\ now < MaxNow
  /\ now' = now + 1
  /\ pick' = GradeLog(difficulty, currentCard)
  /\ graded' = IF recorded(difficulty)
                 THEN graded \cup {getStorageKey(direction, currentCard)}
                 ELSE graded
  /\ IF recorded(difficulty)
       THEN IF writeThrows(storage)
              THEN \* the TypeError ends the handler before step 2
                   UNCHANGED <<storage, reviewedCount, sessionFinished, tick,
                               timers>>
              ELSE /\ storage' =
                        stringified(storage,
                          gradedStats(getStats(storage),
                                      getStorageKey(direction, currentCard),
                                      difficulty, now + 1))
                   /\ countAndAdvance
       ELSE /\ UNCHANGED storage
            /\ countAndAdvance
  /\ scopeStats' = memoAfter(tick' # tick, items, direction, storage')
  /\ grades' = IF recorded(difficulty) /\ ~writeThrows(storage)
                 THEN noteGrade(grades, getStorageKey(direction, currentCard),
                                difficulty)
                 ELSE grades
  /\ UNCHANGED <<items, direction, strategy, limit, learningThreshold, mounted,
                 currentCard, isWorkloadCapped, groupLastPicked,
                 staticQueue, staticIndex, failed, lastCycle, analysis,
                 loadingAI, fetches, inits>>

(***************************************************************************)
(* The setTimeout callback of handleNext (lines 725-745), 150 ms later.    *)
(***************************************************************************)
TimerFire ==
  /\ ~failed
  /\ mounted
  /\ timers # <<>>
  /\ timers' = Tail(timers)
  /\ LET t == Head(timers)
     IN  IF t.strategy = "smart_sort"
           THEN LET stats == getStats(storage)
                    c == PickCycle(t.items, t.direction, t.learningThreshold,
                                   t.tick, t.groupLastPicked, stats)
                IN  \E res \in SmartResults(c, t.direction, stats) :
                      /\ isWorkloadCapped' = c.isCapped
                      /\ pick' = PickLog("next", c, res, t.nextTick)
                      /\ lastCycle' = PickLog("next", c, res, t.nextTick)
                      /\ IF res # NoResult
                           THEN /\ currentCard' = res.item
                                /\ groupLastPicked' =
                                     [groupLastPicked EXCEPT ![res.group] = t.nextTick]
                                /\ UNCHANGED sessionFinished
                           ELSE /\ sessionFinished' = TRUE
                                /\ UNCHANGED <<currentCard, groupLastPicked>>
                      /\ UNCHANGED <<staticIndex>>
           ELSE LET nextIndex == t.staticIndex + 1
                IN  /\ IF nextIndex < Len(t.staticQueue)
                         THEN /\ staticIndex' = nextIndex
                              /\ currentCard' = t.staticQueue[nextIndex + 1]
                              /\ UNCHANGED sessionFinished
                         ELSE /\ sessionFinished' = TRUE
                              /\ UNCHANGED <<staticIndex, currentCard>>
                    /\ pick' = StaticLog("advance", nextIndex < Len(t.staticQueue))
                    /\ UNCHANGED <<isWorkloadCapped, groupLastPicked, lastCycle>>
  /\ UNCHANGED <<items, direction, strategy, limit, learningThreshold, mounted,
                 reviewedCount, tick, staticQueue, storage, now, failed,
                 scopeStats, graded, fetches, grades, inits>>
  /\ resetUI

(***************************************************************************)
(* App.handleResetProgress (App.tsx lines 149-191); the button is part of  *)
(* the browse view, where FlashcardMode is not mounted.                     *)
(***************************************************************************)
\* withoutDirection with the test turned round: keeps the keys of dir
onlyDirection(data, dir) ==
  [k \in {key \in DOMAIN data : key[1] = dir} |-> data[k]]

\* the entries of data whose key does not start with `${studyDirection}:`
withoutDirection(data, dir) ==
  [k \in {key \in DOMAIN data : key[1] # dir} |-> data[k]]

\* deletedCount: the keys that start with the prefix
deletedCount(st, dir) ==
  Cardinality({key \in DOMAIN getStats(st) : key[1] = dir})

\* the item after the reset: nothing is written when there is no item or
\* when JSON.parse or Object.keys(null) throws (the catch of line 186);
\* Object.keys of a number or of [] is empty, so {} is written
afterReset(st, dir) ==
  CASE st.kind = "object" -> setItem(withoutDirection(st.data, dir))
    [] st.kind \in {"number", "array"} -> setItem(EmptyStats)
    [] OTHER -> st

handleResetProgress ==
  /\ ~failed
  /\ ~mounted
  /\ storage' = afterReset(storage, direction)
  /\ pick' = ResetLog(direction, deletedCount(storage, direction))
  /\ graded' = {key \in graded : key[1] # direction}
  /\ grades' = noteReset(grades, direction)
  /\ UNCHANGED <<items, direction, strategy, limit, learningThreshold, mounted,
                 currentCard, reviewedCount, sessionFinished, isWorkloadCapped,
                 tick, groupLastPicked, staticQueue, staticIndex, now, timers,
                 failed, scopeStats, lastCycle, analysis, loadingAI, fetches,
                 inits>>

(***************************************************************************)
(* filteredItems of App (App.tsx lines 79-103) with the category           *)
(* MISTAKES_CATEGORY, 'Exam Cram (Mistakes)', no part-of-speech filter and *)
(* an empty search text.  statsData is what the effect of lines 108-147    *)
(* has read from localStorage when the view was last changed; a key lookup *)
(* in it finds what getStats finds.                                        *)
(***************************************************************************)
statsData == getStats(storage)

\* App.tsx lines 123-139: the counter the effect increments for one item
recordGroup(storageData, key) ==
  IF NoRecord(storageData, key)
    THEN "unseen"
    ELSE LET streak == storageData[key].streak
         IN  IF storageData[key].difficulty = "hard" \/ streak = 0
               THEN "hard"
               ELSE IF streak >= 3
                      THEN "mastered"
                      ELSE "learning"

\* App.tsx line 141: the counts of the progress dashboard of the browse view
dashboardStats ==
  [c \in {"hard", "learning", "mastered", "unseen"} |->
     Cardinality({i \in DOMAIN AllItems :
                    recordGroup(statsData, getStorageKey(direction, AllItems[i])) = c})]

\* line 89: stat && stat.mistakeCount > 0
hasMistake(stats, key) ==
  /\ ~NoRecord(stats, key)
  /\ "mistakeCount" \in DOMAIN stats[key]
  /\ stats[key].mistakeCount > 0

\* allItems.filter(...) for the direction dir
RECURSIVE filteredItems(_, _, _)
filteredItems(its, dir, stats) ==
  IF its = <<>>
    THEN <<>>
    ELSE (IF hasMistake(stats, getStorageKey(dir, Head(its)))
            THEN <<Head(its)>>
            ELSE <<>>)
           \o filteredItems(Tail(its), dir, stats)

\* lines 358-365: 'No Mistakes Recorded!' is shown instead of the cards
noMistakesRecorded(dir) == filteredItems(AllItems, dir, statsData) = <<>>

(***************************************************************************)
(* handleAIAnalysis (lines 754-761): the part before the await, and the    *)
(* part after it, which runs when the promise of analyzeWordWithGemini is  *)
(* settled.  The promise is never rejected: the service returns null when  *)
(* there is no API key, no text or an error (geminiService.ts 106-151).    *)
(***************************************************************************)
MaxFetches == 2

AnalysisResults == {"analysis", "null"}

\* the AIWordAnalysis the service returns for a lemma, identified by its
\* stressedLemma: the lemma with the stress mark
AnalysisOf(lemma) == lemma

\* line 820: analysis ? analysis.stressedLemma : currentCard.lemma
displayLemma == IF analysis # null THEN analysis ELSE currentCard

\* pick: the last step was a part of handleAIAnalysis for card
FetchLog(kind, card) == [kind |-> kind, card |-> card]

\* everything but analysis, loadingAI, fetches and pick
scheduling ==
  <<items, direction, strategy, limit, learningThreshold, mounted,
    currentCard, reviewedCount, sessionFinished, isWorkloadCapped,
    tick, groupLastPicked, staticQueue, staticIndex,
    storage, now, timers, failed, scopeStats, graded, lastCycle, grades,
    inits>>

\* the button is rendered while there is no analysis (line 878) and is
\* disabled while loadingAI (line 886)
handleAIAnalysis ==
  /\ ~failed
  /\ CardShown
  /\ analysis = null
  /\ ~loadingAI
  /\ Len(fetches) < MaxFetches
  /\ loadingAI' = TRUE
  /\ fetches' = Append(fetches, currentCard)
  /\ pick' = FetchLog("analyze", currentCard)
  /\ UNCHANGED <<analysis, scheduling>>

\* the value of the await of line 758
awaited(result, card) ==
  IF result = "analysis" THEN AnalysisOf(card) ELSE null

\* lines 759-760, for the call at position i of fetches
handleAIAnalysisResumed(i, result) ==
  /\ ~failed
  /\ mounted
  /\ i \in DOMAIN fetches
  /\ analysis' = awaited(result, fetches[i])
  /\ loadingAI' = FALSE
  /\ fetches' = [j \in 1..(Len(fetches) - 1) |->
                   IF j < i THEN fetches[j] ELSE fetches[j + 1]]
  /\ pick' = FetchLog("analyzed", fetches[i])
  /\ UNCHANGED scheduling

Next ==
  \/ \E its \in Pools : Mount(its)
  \/ \E its \in Pools : SetItems(its)
  \/ \E dir \in Directions : SetDirection(dir)
  \/ \E strat \in Strategies : SetStrategy(strat)
  \/ \E lim \in Limits : SetLimit(lim)
  \/ \E thr \in Thresholds : SetThreshold(thr)
  \/ onResetFilter
  \/ Unmount
  \/ \E difficulty \in Decisions : handleNext(difficulty)
  \/ TimerFire
  \/ handleResetProgress

Spec == Init /\ [][Next]_vars

(***************************************************************************)
(* The same program started with a session limit of 1 card, and started    *)
(* with an item in localStorage that is JSON but not an object.            *)
(***************************************************************************)
LimitInit == Start({1}, Unreadable)

LimitSpec == LimitInit /\ [][Next]_vars

StoreInit == \E kind \in StoreKinds \ {"object", "unreadable"} :
               Start(all, Malformed(kind))

StoreSpec == StoreInit /\ [][Next]_vars

(***************************************************************************)
(* The non-adaptive modes: the view is opened with the Mode select at      *)
(* sequential, random or hard_only, with any Count and with a store that   *)
(* earlier sessions have left; the props do not change afterwards.         *)
(***************************************************************************)
StaticStrategies == Strategies \ {"smart_sort"}

\* stores with a hard or an easy record of an earlier session for some of
\* the lemmas
StaticStores ==
  { [k \in {getStorageKey("ru-zh", l) : l \in DOMAIN f} |->
       [difficulty |-> f[k[2]][1], lastReviewed |-> 0, streak |-> f[k[2]][2]]] :
      f \in UNION {[L -> {<<"hard", 0>>, <<"easy", 1>>}] : L \in SUBSET Lemmas} }

StaticInit ==
  /\ items = AllItems
  /\ direction = "ru-zh"
  /\ strategy \in StaticStrategies
  /\ limit \in Limits
  /\ learningThreshold = MaxThreshold
  /\ mounted = FALSE
  /\ FreshSession
  /\ \E stats \in StaticStores : storage = setItem(stats)
  /\ now = 0
  /\ timers = <<>>
  /\ pick = NoPick
  /\ failed = FALSE
  /\ scopeStats = ZeroCounts
  /\ graded = DOMAIN getStats(storage)
  /\ lastCycle = NoPick
  /\ fetches = <<>>
  /\ grades = NoHistory
  /\ inits = 0

StaticNext ==
  \/ Mount(AllItems)
  \/ \E difficulty \in Decisions : handleNext(difficulty)
  \/ TimerFire
  \/ Unmount

StaticSpec == StaticInit /\ [][StaticNext]_vars

(***************************************************************************)
(* The program of Spec with the history of the grades kept.                *)
(***************************************************************************)
GradeInit ==
  /\ items = AllItems
  /\ direction = "ru-zh"
  /\ strategy = "smart_sort"
  /\ limit = all
  /\ learningThreshold = MaxThreshold
  /\ mounted = FALSE
  /\ FreshSession
  /\ storage = Unreadable
  /\ now = 0
  /\ timers = <<>>
  /\ pick = NoPick
  /\ failed = FALSE
  /\ scopeStats = ZeroCounts
  /\ graded = {}
  /\ lastCycle = NoPick
  /\ fetches = <<>>
  /\ grades = EmptyHistory
  /\ inits = 0

GradeSpec == GradeInit /\ [][Next]_vars

(***************************************************************************)
(* Step 5 on its own: the walk of lines 599-609 applied to integer weights *)
(* drawn from 0..MaxWeight and to every draw below their total.            *)
(***************************************************************************)
MaxWeight == 3

\* pick: weights handed to the walk, and the walk of those weights with one
\* value of randomPointer
WeightsLog(w) == [kind |-> "weights", weights |-> w]
WalkLog(w, randomPointer, group) ==
  [kind |-> "walk", weights |-> w, randomPointer |-> randomPointer,
   group |-> group]

WalkInit ==
  /\ items = AllItems
  /\ direction = "ru-zh"
  /\ strategy = "smart_sort"
  /\ limit = all
  /\ learningThreshold = MaxThreshold
  /\ mounted = TRUE
  /\ FreshSession
  /\ storage = Unreadable
  /\ now = 0
  /\ timers = <<>>
  /\ \E w \in [GroupTypes -> 0..MaxWeight] : pick = WeightsLog(w)
  /\ failed = FALSE
  /\ scopeStats = ZeroCounts
  /\ graded = {}
  /\ lastCycle = NoPick
  /\ fetches = <<>>
  /\ grades = NoHistory
  /\ inits = 0

\* lines 599-609 for one value of Math.random()
weightedRandomGroup ==
  /\ pick.kind = "weights"
  /\ \E randomPointer \in Pointers(totalWeight(pick.weights)) :
       pick' = WalkLog(pick.weights, randomPointer,
                       selectGroup(pick.weights, randomPointer))
  /\ UNCHANGED <<scheduling, analysis, loadingAI, fetches>>

WalkNext == weightedRandomGroup

WalkSpec == WalkInit /\ [][WalkNext]_vars

(***************************************************************************)
(* The flashcard view with the 'AI Analyze' button in use: a session with  *)
(* or without a limit, its grades and timers, and the calls of the example *)
(* sentence service, which settle in any order.                            *)
(***************************************************************************)
AIInit == \E lim \in Limits : Start(lim, Unreadable)

AINext ==
  \/ Mount(AllItems)
  \/ \E difficulty \in Decisions : handleNext(difficulty)
  \/ TimerFire
  \/ handleAIAnalysis
  \/ \E i \in 1..MaxFetches, result \in AnalysisResults :
       handleAIAnalysisResumed(i, result)
  \/ Unmount

AISpec == AIInit /\ [][AINext]_vars

(***************************************************************************)
(* One unlimited smart_sort session that never ends: the view is opened,   *)
(* the user keeps answering and every timer fires.  The counters of such a *)
(* session grow without bound, so the state is kept up to what a pick      *)
(* cycle can tell apart:                                                   *)
(*  - lastReviewed is only compared (a.lastReviewed - b.lastReviewed in    *)
(*    the sort of step 6), so the timestamps of the store are renumbered   *)
(*    1, 2, ... in their order and the clock is the latest of them;        *)
(*  - streak is only tested for 0 and for >= 3, so it stops at 3;          *)
(*  - tick and the last-picked ticks enter only as max(0, tick - last), so *)
(*    once tick would pass LiveWindow every tick value is lowered by the   *)
(*    excess and stops at 0: a staleness stops growing at LiveWindow,      *)
(*    which lowers a weight but never makes it 0;                          *)
(*  - reviewedCount is not read when the limit is 'all', it stops at       *)
(*    LiveWindow.                                                          *)
(***************************************************************************)
LiveWindow == 2

\* the rank of the timestamp of key among the timestamps of stats
rankOf(stats, key) ==
  Cardinality({k \in DOMAIN stats :
                 stats[k].lastReviewed <= stats[key].lastReviewed})

\* stats as a pick cycle can tell it apart
observed(stats) ==
  [k \in DOMAIN stats |->
     [difficulty |-> stats[k].difficulty,
      lastReviewed |-> rankOf(stats, k),
      streak |-> Min(stats[k].streak, 3)]]

\* by how much nextTick passes the window, and a tick value lowered by that
excess(nextTick) == Max(0, nextTick - LiveWindow)
slide(value, e) == Max(0, value - e)
slideAll(glp, e) == [g \in GroupTypes |-> slide(glp[g], e)]
slideClosure(t, e) ==
  [t EXCEPT !.tick = slide(@, e),
            !.nextTick = slide(@, e),
            !.groupLastPicked = slideAll(@, e)]

\* handleNext (lines 688-746) with limit 'all' and a store that is absent or
\* an object, used once per card: the user answers the card that the last
\* timer has shown
LiveGrade(difficulty) ==
  /\ ~failed
  /\ CardShown
  /\ limit = all
  /\ timers = <<>>
  /\ LET key == getStorageKey(direction, currentCard)
         stats == IF recorded(difficulty)
                    THEN observed(gradedStats(getStats(storage), key,
                                              difficulty, now + 1))
                    ELSE getStats(storage)
         e == excess(tick + 1)
     IN  /\ storage' = IF recorded(difficulty)
                         THEN stringified(storage, stats)
                         ELSE storage
         /\ now' = Cardinality(DOMAIN stats)
         /\ graded' = IF recorded(difficulty) THEN graded \cup {key}
                                              ELSE graded
         /\ grades' = IF recorded(difficulty)
                        THEN noteGrade(grades, key, difficulty)
                        ELSE grades
         /\ reviewedCount' = Min(reviewedCount + 1, LiveWindow)
         /\ tick' = slide(tick + 1, e)
         /\ groupLastPicked' = slideAll(groupLastPicked, e)
         /\ timers' = Append([i \in DOMAIN timers |->
                                slideClosure(timers[i], e)],
                             slideClosure(Closure, e))
         /\ scopeStats' = memoAfter(TRUE, items, direction, storage')
  /\ pick' = GradeLog(difficulty, currentCard)
  /\ UNCHANGED <<items, direction, strategy, limit, learningThreshold, mounted,
                 currentCard, sessionFinished, isWorkloadCapped,
                 staticQueue, staticIndex, failed, lastCycle, analysis,
                 loadingAI, fetches, inits>>

\* the timer callback when its weighted random draw selects group g
LivePick(g) == TimerFire /\ pick'.result.group = g

\* ENABLED <<TimerFire>>_vars
TimerPending == mounted /\ ~failed /\ timers # <<>>

\* ENABLED <<LivePick(g)>>_vars: some value of Math.random() makes the timer
\* that fires next select group g
Selectable(g) ==
  /\ TimerPending
  /\ LET t == Head(timers)
     IN  \E w \in {PickCycle(t.items, t.direction, t.learningThreshold,
                             t.tick, t.groupLastPicked,
                             getStats(storage)).weights} :
           \E randomPointer \in Pointers(totalWeight(w)) :
             selectGroup(w, randomPointer) = g

\* the steps of LiveNext that take the head off timers are those of TimerFire
Fired == timers # <<>> /\ timers' = Tail(timers)

LiveNext ==
  \/ Mount(AllItems)
  \/ \E difficulty \in Decisions : LiveGrade(difficulty)
  \/ TimerFire

\* the view is opened, the user answers the card that is shown, a timer that
\* is set fires, and Math.random() is fair: a group that again and again has
\* a positive weight at a draw is selected by some draw
\* The last two conjuncts are WF_vars(TimerFire) and SF_vars(LivePick(g))
\* written out with the two ENABLED predicates above.
LiveFairness ==
  /\ WF_vars(Mount(AllItems))
  /\ WF_vars(\E difficulty \in Decisions : LiveGrade(difficulty))
  /\ ([]<>(~TimerPending) \/ []<><<Fired>>_vars)
  /\ \A g \in GroupTypes :
       (<>[](~Selectable(g)) \/ []<><<Fired /\ pick'.result.group = g>>_vars)

LiveSpec == Init /\ [][LiveNext]_vars /\ LiveFairness

(***************************************************************************)
(* The pick cycle on its own: selectNextSmartCard applied once to a pool,  *)
(* a direction, a threshold and a store drawn from bounded sets.           *)
(***************************************************************************)
PickLemmas == 1..(NumItems + 1)
PickPools == {[i \in 1..n |-> i] : n \in 0..(NumItems + 1)}
Stamps == 1..(NumItems + 1)

\* the records handleNext can have written
Record(difficulty, streak, time) ==
  [difficulty |-> difficulty, lastReviewed |-> time, streak |-> streak]
GradedShapes ==
  {<<"hard", 0>>} \cup {<<"easy", k>> : k \in 1..(MaxNow + 1)}

\* stores for direction dir with a record of any shape, all of one timestamp,
\* for some of the lemmas 1..NumItems
ShapeStores(dir) ==
  { [k \in {getStorageKey(dir, l) : l \in DOMAIN f} |->
       Record(f[k[2]][1], f[k[2]][2], 1)] :
      f \in UNION {[L -> GradedShapes] : L \in SUBSET Lemmas} }

\* stores for direction dir with hard and learning records of any timestamps
\* for some of the lemmas 1..NumItems+1
StampStores(dir) ==
  { [k \in {getStorageKey(dir, l) : l \in DOMAIN f} |->
       Record(f[k[2]][1][1], f[k[2]][1][2], f[k[2]][2])] :
      f \in UNION {[L -> {<<"hard", 0>>, <<"easy", 1>>} \X Stamps] :
                     L \in SUBSET PickLemmas} }

\* the records of the other direction: none, or one for every lemma
OtherStores(dir) ==
  {EmptyStats,
   [k \in {getStorageKey(dir, l) : l \in PickLemmas} |-> Record("hard", 0, 1)]}

OtherDirection(dir) == CHOOSE d \in Directions : d # dir

\* any pool, direction and threshold with a store of ShapeStores
ShapeInputs ==
  /\ items \in PickPools
  /\ direction \in Directions
  /\ learningThreshold \in Thresholds
  /\ \E mine \in ShapeStores(direction),
        other \in OtherStores(OtherDirection(direction)) :
       storage = setItem(mine @@ other)

\* the largest pool with a store of StampStores
StampInputs ==
  /\ items = [i \in PickLemmas |-> i]
  /\ direction = "ru-zh"
  /\ learningThreshold = MaxThreshold
  /\ \E mine \in StampStores(direction) : storage = setItem(mine)

PickInit ==
  /\ ShapeInputs \/ StampInputs
  /\ strategy = "smart_sort"
  /\ limit = all
  /\ mounted = TRUE
  /\ FreshSession
  /\ now = NumItems + 1
  /\ timers = <<>>
  /\ pick = NoPick
  /\ failed = FALSE
  /\ scopeStats = liveCounts(items, direction, getStats(storage))
  /\ graded = DOMAIN getStats(storage)
  /\ lastCycle = NoPick
  /\ fetches = <<>>
  /\ grades = NoHistory
  /\ inits = 0

\* one call of selectNextSmartCard by the current render
selectNextSmartCard ==
  /\ pick = NoPick
  /\ LET stats == getStats(storage)
         c == PickCycle(items, direction, learningThreshold,
                        tick, groupLastPicked, stats)
     IN  \E res \in SmartResults(c, direction, stats) :
           /\ isWorkloadCapped' = c.isCapped
           /\ pick' = PickLog("call", c, res, tick)
  /\ UNCHANGED <<items, direction, strategy, limit, learningThreshold, mounted,
                 currentCard, reviewedCount, sessionFinished, tick,
                 groupLastPicked, staticQueue, staticIndex, storage, now,
                 timers, failed, scopeStats, graded, lastCycle, analysis,
                 loadingAI, fetches, grades, inits>>

PickNext == selectNextSmartCard

PickSpec == PickInit /\ [][PickNext]_vars

(***************************************************************************)
(* Properties                                                              *)
(***************************************************************************)
\* the set of the elements of a sequence
Range(seq) == {seq[i] : i \in DOMAIN seq}

\* the classification table of the specification (section 3)
TableGroup(stats, key) ==
  IF key \notin DOMAIN stats
    THEN "new"
    ELSE IF stats[key].difficulty = "hard" \/ stats[key].streak = 0
           THEN "hard"
           ELSE IF stats[key].streak \in {1, 2}
                  THEN "learning"
                  ELSE "mastered"

\* the base weights of the specification (section 4.3)
BaseWeight(g) ==
  CASE g = "new" -> 40
    [] g = "hard" -> 100
    [] g = "learning" -> 60
    [] g = "mastered" -> 5

\* the last step ran a pick cycle
Picked == pick.kind \in {"init", "next", "call"}

\* C1: the bucketing step puts every pool item into exactly the bucket the
\* classification table gives for its record; the four buckets are pairwise
\* disjoint and together hold each pool item once.
C1_BucketsPartitionPool ==
  LET stats == getStats(storage)
      groups == Buckets(items, direction, stats).groups
  IN  /\ \A i \in DOMAIN items : \A g \in GroupTypes :
           items[i] \in Range(groups[g])
             <=> g = TableGroup(stats, <<direction, items[i]>>)
      /\ \A g, h \in GroupTypes :
           g # h => Range(groups[g]) \cap Range(groups[h]) = {}
      /\ UNION {Range(groups[g]) : g \in GroupTypes} = Range(items)
      /\ Len(groups["new"]) + Len(groups["hard"]) + Len(groups["learning"])
           + Len(groups["mastered"]) = Len(items)
      /\ Picked => pick.cycle.groups = groups

\* a pick cycle whose four buckets are all non-empty
C1_Witness ==
  /\ pick.kind = "call"
  /\ \A g \in GroupTypes : pick.cycle.groups[g] # <<>>

\* C2: when the Hard and Learning buckets together hold at least
\* learningThreshold items, the weight of New is 0 whatever tick and
\* lastPickedTick[New] are, and the item the cycle returns is not a New item.
C2_CappedNewNeverPicked ==
  Picked =>
    LET c == pick.cycle
    IN  Len(c.groups["hard"]) + Len(c.groups["learning"])
            >= c.learningThreshold
          => /\ c.isCapped
             /\ c.weights["new"] = 0
             /\ \A tk \in 0..MaxNow, lp \in 0..MaxNow :
                  finalWeights(c.groups, c.isCapped, tk,
                    [c.groupLastPicked EXCEPT !["new"] = lp])["new"] = 0
             /\ pick.result # NoResult
                  => /\ pick.result.group # "new"
                     /\ pick.result.item \notin Range(c.groups["new"])
                     /\ TableGroup(c.stats,
                          <<c.direction, pick.result.item>>) # "new"

\* a capped session pick with a non-empty New bucket whose staleness is
\* positive, returning an item
C2_Witness ==
  /\ pick.kind \in {"init", "next"}
  /\ pick.cycle.learningThreshold > 0
  /\ pick.cycle.isCapped
  /\ pick.cycle.groups["new"] # <<>>
  /\ pick.cycle.tick > pick.cycle.groupLastPicked["new"]
  /\ pick.result # NoResult

\* C3: the weight of a non-empty, not capped group is its base weight (New
\* 40, Hard 100, Learning 60, Mastered 5) plus 2 * max(0, tick -
\* lastPickedTick[g]) for the tick and lastPickedTick the cycle reads; an
\* empty bucket weighs 0; the total is the sum of the four weights.
C3_WeightFormula ==
  Picked =>
    LET c == pick.cycle
        staleness(g) ==
          IF c.tick > c.groupLastPicked[g]
            THEN c.tick - c.groupLastPicked[g]
            ELSE 0
    IN  /\ \A g \in GroupTypes :
             /\ c.groups[g] = <<>> => c.weights[g] = 0
             /\ (c.groups[g] # <<>> /\ ~(g = "new" /\ c.isCapped))
                  => c.weights[g] = BaseWeight(g) + 2 * staleness(g)
        /\ c.total = c.weights["new"] + c.weights["hard"]
                       + c.weights["learning"] + c.weights["mastered"]

\* a session pick with an empty bucket, a non-empty group of positive
\* staleness and a non-empty group last picked at the tick the cycle reads
C3_Witness ==
  /\ pick.kind = "next"
  /\ \E g \in GroupTypes : pick.cycle.groups[g] = <<>>
  /\ \E g \in GroupTypes :
       /\ pick.cycle.groups[g] # <<>>
       /\ pick.cycle.weights[g] = BaseWeight(g) + 2
  /\ \E g \in GroupTypes :
       /\ pick.cycle.groups[g] # <<>>
       /\ pick.cycle.groupLastPicked[g] = pick.cycle.tick
       /\ pick.cycle.weights[g] = BaseWeight(g)

\* C4: the selector returns null exactly when the total weight is <= 0;
\* otherwise every draw in [0, total) selects a group of weight > 0, whose
\* bucket is non-empty and which is not a capped New, and the item returned
\* is defined and a member of the pool.
C4_NullIffNoWeight ==
  pick.kind = "call" =>
    LET c == pick.cycle
    IN  /\ pick.result = NoResult <=> c.total <= 0
        /\ \A r \in Pointers(c.total) :
             LET g == selectGroup(c.weights, r)
             IN  /\ c.weights[g] > 0
                 /\ c.groups[g] # <<>>
                 /\ ~(g = "new" /\ c.isCapped)
                 /\ \A j \in Indexes(c.groups[g]) :
                      LET res == ResultFor(c, c.direction, c.stats, r, j)
                      IN  /\ res.item # null
                          /\ res.item \in Range(c.items)
                          /\ res.group = g
        /\ pick.result # NoResult
             => /\ pick.result.item # null
                /\ pick.result.item \in Range(c.items)
                /\ pick.result.item \in Range(c.groups[pick.result.group])
                /\ c.weights[pick.result.group] > 0

\* a call that returns an item although the first group of the walk is
\* empty and New is capped with a non-empty bucket
C4_Witness ==
  /\ pick.kind = "call"
  /\ pick.result # NoResult
  /\ pick.cycle.groups["hard"] = <<>>
  /\ pick.cycle.groups["new"] # <<>>
  /\ pick.cycle.isCapped
  /\ pick.cycle.learningThreshold > 0

\* lastReviewedAt of the specification: 0 for an item without a record
ReviewedAt(stats, key) ==
  IF key \in DOMAIN stats THEN stats[key].lastReviewed ELSE 0

\* C5: the item picked within the selected group is among the min(3, n)
\* oldest items of the bucket by lastReviewedAt (no record = 0); when the
\* timestamps are distinct and n > 3, it is none of the n - 3 most recent.
C5_AmongThreeOldest ==
  (pick.kind = "call" /\ pick.result # NoResult) =>
    LET c == pick.cycle
        bucket == Range(c.groups[pick.result.group])
        n == Cardinality(bucket)
        at(x) == ReviewedAt(c.stats, <<c.direction, x>>)
        item == pick.result.item
        older == {x \in bucket : at(x) < at(item)}
        newer == {x \in bucket : at(x) > at(item)}
    IN  /\ item \in bucket
        /\ Cardinality(older) < (IF n < 3 THEN n ELSE 3)
        /\ (n > 3 /\ \A x, y \in bucket : x # y => at(x) # at(y))
             => Cardinality(newer) >= n - 3

\* a call that returns the third oldest of more than three items of distinct
\* timestamps that the pool lists from newest to oldest
C5_Witness ==
  /\ pick.kind = "call"
  /\ pick.result # NoResult
  /\ LET c == pick.cycle
         cands == c.groups[pick.result.group]
         at(x) == ReviewedAt(c.stats, <<c.direction, x>>)
     IN  /\ Len(cands) > 3
         /\ \A i, j \in DOMAIN cands : i < j => at(cands[i]) > at(cands[j])
         /\ Cardinality({x \in Range(cands) :
                           at(x) < at(pick.result.item)}) = 2

\* the step is handleNext(difficulty) (only handleNext reads the clock)
GradeStep(difficulty) ==
  /\ now' = now + 1
  /\ pick'.kind = "grade"
  /\ pick'.difficulty = difficulty

\* C6: grading the current item easy writes a record with grade easy and
\* streak = previous streak + 1 (0 when there was no record); grading it
\* hard writes grade hard and streak 0 whatever the streak was.  So easy at
\* streak 2 puts the item into Mastered and hard puts it into Hard.
C6_GradeWritesStreak ==
  [][ LET key == getStorageKey(direction, currentCard)
          before == getStats(storage)
          after == getStats(storage')
          previous == IF key \in DOMAIN before THEN before[key].streak ELSE 0
      IN  /\ GradeStep("easy")
            => /\ key \in DOMAIN after
               /\ after[key].difficulty = "easy"
               /\ after[key].streak = previous + 1
               /\ previous = 2
                    => /\ after[key].streak = 3
                       /\ GroupOfItem(after, key) = "mastered"
          /\ GradeStep("hard")
            => /\ key \in DOMAIN after
               /\ after[key].difficulty = "hard"
               /\ after[key].streak = 0
               /\ GroupOfItem(after, key) = "hard" ]_vars

\* an easy grade has just taken an item from streak 2 to streak 3
C6_Witness ==
  /\ pick.kind = "grade"
  /\ pick.difficulty = "easy"
  /\ LET stats == getStats(storage)
         key == getStorageKey(direction, pick.card)
     IN  /\ key \in DOMAIN stats
         /\ stats[key].streak = 3
         /\ stats[key].lastReviewed = now

\* C7: with a session limit L >= 1, a grading input finishes the session
\* exactly when it is the L-th one, then reviewedCount = L and no pick cycle
\* is scheduled for it; before the L-th grade the session only finishes when
\* a pick cycle finds no item.
C7_LimitFinishesSession ==
  [][ (mounted /\ mounted' /\ limit # all /\ limit' = limit) =>
        \A L \in limit :
          /\ reviewedCount' <= L
          /\ reviewedCount' = L => sessionFinished'
          /\ now' = now + 1
               => /\ reviewedCount' = reviewedCount + 1
                  /\ sessionFinished' <=> reviewedCount' = L
                  /\ reviewedCount' = L
                       => /\ timers' = timers
                          /\ tick' = tick
                          /\ groupLastPicked' = groupLastPicked
                          /\ currentCard' = currentCard
                  /\ reviewedCount' < L => Len(timers') = Len(timers) + 1
          /\ (~sessionFinished /\ sessionFinished' /\ reviewedCount' < L)
               => \/ pick'.kind = "next" /\ pick'.result = NoResult
                  \/ pick'.kind = "advance" /\ ~pick'.found ]_vars

\* the last grade of a session of limit MaxLimit has just finished it, after
\* the pick cycles of the grades before it ran
C7_Witness ==
  /\ mounted
  /\ limit = {MaxLimit}
  /\ reviewedCount = MaxLimit
  /\ sessionFinished
  /\ pick.kind = "grade"
  /\ timers = <<>>

\* C8: initialization resets tick, the four lastPickedTick entries and the
\* reviewed counter to 0, and the first pick cycle of every session, also of
\* a re-initialized one, is computed from the reset values: every staleness
\* is 0 and every non-empty uncapped group weighs its base weight.
C8_FirstPickFromResetValues ==
  pick.kind = "init" =>
    /\ tick = 0
    /\ groupLastPicked = ZeroTicks
    /\ reviewedCount = 0
    /\ pick.cycle.tick = 0
    /\ pick.cycle.groupLastPicked = ZeroTicks
    /\ \A g \in GroupTypes :
         (pick.cycle.groups[g] # <<>> /\ ~(g = "new" /\ pick.cycle.isCapped))
           => pick.cycle.weights[g] = BaseWeight(g)

\* the last step was an initialization whose first pick found no item
NullFirstPick(p) ==
  \/ p.kind = "init" /\ p.result = NoResult
  \/ p.kind = "queue" /\ ~p.found

C10_NextPickUsesNewTick ==
  pick.kind = "next" =>
    LET c == pick.cycle
        newTick == pick.nextTick
        staleness(g) ==
          IF newTick > c.groupLastPicked[g]
            THEN newTick - c.groupLastPicked[g]
            ELSE 0
    IN  /\ c.tick = newTick
        /\ \A g \in GroupTypes :
             (c.groups[g] # <<>> /\ ~(g = "new" /\ c.isCapped))
               => c.weights[g] = BaseWeight(g) + 2 * staleness(g)
        /\ pick.result # NoResult
             => groupLastPicked[pick.result.group] = newTick

\* C11: a group that stays non-empty with a base weight > 0 (New only while
\* not capped) and was not selected at the previous pick cycle of the
\* session weighs strictly more at this pick cycle than at the previous one,
\* by 2 for each grading event, from the first pick of the session on.
C11_UnselectedWeightGrows ==
  [][ (pick'.kind = "next" /\ lastCycle.kind \in {"init", "next"}) =>
        \A g \in GroupTypes :
          ( /\ lastCycle.cycle.groups[g] # <<>>
            /\ pick'.cycle.groups[g] # <<>>
            /\ g = "new" => ~lastCycle.cycle.isCapped /\ ~pick'.cycle.isCapped
            /\ lastCycle.result.group # g )
            => pick'.cycle.weights[g] >= lastCycle.cycle.weights[g] + 2 ]_vars

\* the combination of the fallback: only the New bucket is non-empty, and
\* New is capped
OnlyNewAndCapped(c) ==
  /\ c.groups["new"] # <<>>
  /\ c.isCapped
  /\ c.groups["hard"] = <<>>
  /\ c.groups["learning"] = <<>>
  /\ c.groups["mastered"] = <<>>

\* C13 as stated: for every pool and every threshold >= 0, no pick cycle sees
\* a non-empty capped New bucket while Hard, Learning and Mastered are empty.
C13_OnlyNewNeverCapped ==
  Picked => ~OnlyNewAndCapped(pick.cycle)

\* C13, amended: a pick cycle sees a non-empty capped New bucket with Hard,
\* Learning and Mastered empty only when the threshold is 0, and then the
\* total weight is 0 and the cycle returns null; for a threshold >= 1 a pool
\* of New items only is never capped and the pick is a New item.
C13_OnlyNewCappedOnlyAtZero ==
  Picked =>
    LET c == pick.cycle
        onlyNew == /\ c.groups["new"] # <<>>
                   /\ c.groups["hard"] = <<>>
                   /\ c.groups["learning"] = <<>>
                   /\ c.groups["mastered"] = <<>>
    IN  /\ OnlyNewAndCapped(c)
             => /\ c.learningThreshold = 0
                /\ c.total = 0
                /\ pick.result = NoResult
        /\ (onlyNew /\ c.learningThreshold >= 1)
             => /\ ~c.isCapped
                /\ c.weights["new"] > 0
                /\ pick.result # NoResult
                /\ pick.result.group = "new"
        /\ (onlyNew /\ c.learningThreshold = 0) => OnlyNewAndCapped(c)

\* a call on a pool of New items only with a threshold >= 1
C13_Witness ==
  /\ pick.kind = "call"
  /\ pick.cycle.learningThreshold >= 1
  /\ Len(pick.cycle.groups["new"]) = Len(pick.cycle.items)
  /\ Len(pick.cycle.items) > 1
  /\ pick.result.group = "new"

\* C14: handleNext without a decision (skip) leaves the whole store as it
\* is, adds 1 to the reviewed counter and goes on as a recorded grade does:
\* the session finishes when the counter reaches the limit, otherwise tick is
\* incremented and the next pick is scheduled.
C14_SkipAdvancesWithoutRecord ==
  [][ GradeStep("none") =>
        /\ storage' = storage
        /\ reviewedCount' = reviewedCount + 1
        /\ currentCard' = currentCard
        /\ IF limit # all /\ \A L \in limit : reviewedCount + 1 >= L
             THEN /\ sessionFinished'
                  /\ tick' = tick
                  /\ timers' = timers
             ELSE /\ ~sessionFinished'
                  /\ tick' = tick + 1
                  /\ Len(timers') = Len(timers) + 1
                  /\ timers'[Len(timers')].tick = tick
                  /\ timers'[Len(timers')].nextTick = tick + 1 ]_vars

\* a skip has just been taken while the store holds a record, and the next
\* pick is scheduled
C14_Witness ==
  /\ pick.kind = "grade"
  /\ pick.difficulty = "none"
  /\ getStats(storage) # EmptyStats
  /\ timers # <<>>
  /\ reviewedCount > 1

\* C15: in every reachable state a record exists under direction:item
\* exactly when the item has been graded easy or hard under that direction
\* since the last reset of the direction; only such a grade adds a record
\* (of the graded key) and only a reset removes records: initialization,
\* pick cycles, skips, scopeStats and leaving the session change no record.
C15_RecordIffGraded ==
  [][ LET before == getStats(storage)
          after == getStats(storage')
      IN  /\ DOMAIN after = graded'
          /\ DOMAIN after # DOMAIN before
               => \/ /\ GradeStep("easy") \/ GradeStep("hard")
                     /\ DOMAIN after
                          = DOMAIN before \cup {<<direction, currentCard>>}
                  \/ /\ pick'.kind = "reset"
                     /\ DOMAIN after
                          = {key \in DOMAIN before : key[1] # direction}
          /\ pick'.kind \in {"init", "next", "queue", "advance", "none", "error"}
               => storage' = storage
          /\ GradeStep("none") => storage' = storage ]_vars

\* a card is shown that has no record, while another item of the pool has
\* one under the current direction and a third key has one under the other
C15_Witness ==
  /\ CardShown
  /\ pick.kind \in {"init", "next"}
  /\ <<direction, currentCard>> \notin graded
  /\ \E key \in graded : key[1] = direction
  /\ \E key \in graded : key[1] # direction
  /\ DOMAIN getStats(storage) = graded

\* C16: the reset of direction d removes every record whose key belongs to
\* d and leaves every record of the other direction with the same grade,
\* time and streak; afterwards every item is New under d.
C16_ResetRemovesOneDirection ==
  [][ pick'.kind = "reset" =>
        LET before == getStats(storage)
            after == getStats(storage')
        IN  /\ pick'.direction = direction
            /\ \A key \in DOMAIN before :
                 IF key[1] = direction
                   THEN key \notin DOMAIN after
                   ELSE /\ key \in DOMAIN after
                        /\ after[key] = before[key]
            /\ DOMAIN after \subseteq DOMAIN before
            /\ \A lemma \in Lemmas :
                 /\ GroupOfItem(after, getStorageKey(direction, lemma)) = "new"
                 /\ CountedAs(after, getStorageKey(direction, lemma)) = "new"
            /\ Buckets(AllItems, direction, after).groups["new"] = AllItems ]_vars

\* a reset has just deleted records of the current direction and kept a
\* record of the other direction
C16_Witness ==
  /\ pick.kind = "reset"
  /\ pick.deletedCount > 0
  /\ \E key \in DOMAIN getStats(storage) : key[1] # direction

C19_NoteOnlyWithoutEligibleItem ==
  (FinishedView /\ cappedNote) =>
    /\ lastCycle.kind \in {"init", "next"}
    /\ lastCycle.result = NoResult
    /\ lastCycle.cycle.isCapped
    /\ ~limitReached(limit, reviewedCount)

\* C18: while the item of the store is not a JSON object every read yields
\* the empty mapping, so a pick cycle finds every item in New; no render,
\* pick cycle or count throws; and a grade leaves a store that holds exactly
\* the record of the graded item.
C18_MalformedStoreFailsOpen ==
  [][ storage.kind # "object" =>
        /\ getStats(storage) = EmptyStats
        /\ ~failed'
        /\ pick'.kind # "error"
        /\ pick'.kind \in {"init", "next"} =>
             pick'.cycle.groups =
               [EmptyGroups EXCEPT !["new"] = pick'.cycle.items]
        /\ (pick'.kind = "grade" /\ pick'.difficulty # "none") =>
             /\ storage'.kind = "object"
             /\ DOMAIN storage'.data = {getStorageKey(direction, currentCard)}
             /\ storage'.data[getStorageKey(direction, currentCard)].difficulty
                  = pick'.difficulty ]_vars

\* C20: when exactly one group has a positive weight the pick returns an
\* item, and it is an item of that group; a non-empty pool without records
\* and a threshold >= 1 give a New item at the first pick; a pool whose only
\* item is Mastered gives that item at every pick, whatever the tick and the
\* last-picked ticks are.
C20_SoleWeightedGroupIsPicked ==
  pick.kind = "call" =>
    LET c == pick.cycle
    IN  /\ \A g \in GroupTypes :
             (c.weights[g] > 0 /\ \A h \in GroupTypes \ {g} : c.weights[h] <= 0)
               => /\ pick.result.item # null
                  /\ pick.result.group = g
                  /\ pick.result.item \in Range(c.groups[g])
        /\ ( /\ c.items # <<>>
             /\ \A i \in DOMAIN c.items :
                  getStorageKey(c.direction, c.items[i]) \notin DOMAIN c.stats
             /\ c.learningThreshold >= 1 )
             => /\ pick.result.group = "new"
                /\ pick.result.item \in Range(c.items)
        /\ (Len(c.items) = 1 /\ c.groups["mastered"] = c.items)
             => \A tk \in 0..MaxNow : \A glp \in [GroupTypes -> 0..MaxNow] :
                  LET d == PickCycle(c.items, c.direction, c.learningThreshold,
                                     tk, glp, c.stats)
                  IN  SmartResults(d, c.direction, c.stats)
                        = {[item |-> c.items[1], group |-> "mastered"]}

\* a call in which Hard alone has a positive weight although the New bucket
\* is not empty (it is capped), returning a Hard item
C20_Witness ==
  /\ pick.kind = "call"
  /\ pick.cycle.weights["hard"] > 0
  /\ \A h \in GroupTypes \ {"hard"} : pick.cycle.weights[h] = 0
  /\ pick.cycle.groups["new"] # <<>>
  /\ pick.cycle.learningThreshold >= 1
  /\ pick.result.group = "hard"
  /\ pick.result.item \in Range(pick.cycle.groups["hard"])

\* the bucket of group g under the current store, and the load cap a pick
\* cycle would find
BucketNow(g) == Buckets(items, direction, getStats(storage)).groups[g]
CappedNow ==
  IsCapped(Buckets(items, direction, getStats(storage)).activeLoadCount,
           learningThreshold)
Selected(g) == pick.kind \in {"init", "next"} /\ pick.result.group = g

\* C12: in an unlimited smart_sort session with fair draws, a group whose
\* bucket is non-empty from some point on is selected by a later pick.
C12_NonEmptyGroupEventuallySelected ==
  \A g \in GroupTypes : []([](BucketNow(g) # <<>>) => <>Selected(g))

\* C12 with the load cap: a group whose bucket is non-empty from some point
\* on and which, if it is New, is not capped from that point on, is selected
\* by a later pick.
C12_EligibleGroupEventuallySelected ==
  \A g \in GroupTypes :
    []([](BucketNow(g) # <<>> /\ (g = "new" => ~CappedNow)) => <>Selected(g))

\* a timer pick that selects Mastered after the staleness of Mastered has
\* reached the window, while Hard is not empty
C12_Witness ==
  /\ pick.kind = "next"
  /\ pick.result.group = "mastered"
  /\ pick.cycle.groups["hard"] # <<>>
  /\ pick.cycle.tick - pick.cycle.groupLastPicked["mastered"] >= LiveWindow - 1

\* C22: a step of the example-sentence fetch (the request, its success, its
\* failure) changes nothing but analysis and loadingAI: the store, tick,
\* groupLastPicked, the reviewed counter, the finished flag, the current card
\* and everything else of the session stay as they are; and while a fetch
\* is pending a grading input is accepted and has its usual effect.
C22_FetchLeavesScheduling ==
  [][ /\ pick'.kind \in {"analyze", "analyzed"} =>
           /\ UNCHANGED <<storage, tick, groupLastPicked, reviewedCount,
                          sessionFinished, currentCard>>
           /\ UNCHANGED scheduling
      /\ ( /\ mounted /\ ~failed /\ currentCard # null /\ ~sessionFinished
           /\ fetches # <<>>
           /\ now < MaxNow /\ Len(timers) < MaxPending )
           => ENABLED (\E difficulty \in Decisions : handleNext(difficulty))
      /\ \A difficulty \in Decisions \ {"none"} :
           (GradeStep(difficulty) /\ fetches # <<>>)
             => /\ storage' = setItem(gradedStats(getStats(storage),
                                  getStorageKey(direction, currentCard),
                                  difficulty, now'))
                /\ reviewedCount' = reviewedCount + 1
                /\ fetches' = fetches ]_vars

\* a grade given, and counted, while the analysis of the card is loading
C22_Witness ==
  /\ pick.kind = "grade"
  /\ pick.difficulty = "hard"
  /\ loadingAI
  /\ fetches = <<currentCard>>
  /\ reviewedCount = 1
  /\ getStorageKey(direction, currentCard) \in DOMAIN getStats(storage)

\* C30: an analysis that is displayed is the one of the card that is
\* presented, so the lemma displayed is the one of that card.
C30_AnalysisOfCurrentCard ==
  (CardShown /\ analysis # null) =>
    /\ analysis = AnalysisOf(currentCard)
    /\ displayLemma = AnalysisOf(currentCard)

\* C23: a grade of a smart_sort session that does not reach the limit
\* increases tick by exactly 1, leaves groupLastPicked alone and schedules
\* the pick; that pick, when it selects a group, sets the entry of that group
\* to the tick the grade has set and leaves the other three entries and tick
\* alone.  A grade that reaches the limit changes neither tick nor
\* groupLastPicked and schedules no pick.
C23_GradeAdvancesTickAndOneEntry ==
  [][ /\ \A difficulty \in Decisions :
           (GradeStep(difficulty) /\ strategy = "smart_sort") =>
             IF limitReached(limit, reviewedCount + 1)
               THEN /\ sessionFinished'
                    /\ tick' = tick
                    /\ groupLastPicked' = groupLastPicked
                    /\ timers' = timers
               ELSE /\ tick' = tick + 1
                    /\ groupLastPicked' = groupLastPicked
                    /\ Len(timers') = Len(timers) + 1
                    /\ timers'[Len(timers')].nextTick = tick'
      /\ (pick'.kind = "next" /\ pick'.result # NoResult) =>
           /\ pick'.nextTick = Head(timers).nextTick
           /\ tick' = tick
           /\ \A g \in GroupTypes :
                groupLastPicked'[g] =
                  IF g = pick'.result.group THEN pick'.nextTick
                                            ELSE groupLastPicked[g] ]_vars

\* the pick of the first of two grades given one after the other: it sets the
\* entry of its group to 1, the tick of its grade, while tick is 2 already
C23_Witness ==
  /\ pick.kind = "next"
  /\ pick.result # NoResult
  /\ pick.nextTick = 1
  /\ tick = 2
  /\ timers # <<>>
  /\ groupLastPicked[pick.result.group] = 1
  /\ \E g \in GroupTypes \ {pick.result.group} : groupLastPicked[g] = 0

\* C24: a grade easy or hard under direction d on item i changes the record
\* at key d:i and nothing else of the store: every other key keeps its
\* record, the record of the same item under the other direction included,
\* and no key is removed.
C24_GradeWritesOneKey ==
  [][ \A difficulty \in Decisions \ {"none"} :
        GradeStep(difficulty) =>
          LET key == getStorageKey(direction, currentCard)
              before == getStats(storage)
              after == getStats(storage')
          IN  /\ DOMAIN after = DOMAIN before \cup {key}
              /\ \A k \in DOMAIN before \ {key} : after[k] = before[k]
              /\ after[key].lastReviewed = now'
              /\ key \in DOMAIN before => after[key] # before[key] ]_vars

\* a grade of an item that has a record under the other direction as well
C24_Witness ==
  /\ pick.kind = "grade"
  /\ pick.difficulty = "easy"
  /\ \E d \in Directions \ {direction} :
       LET stats == getStats(storage)
       IN  /\ getStorageKey(d, pick.card) \in DOMAIN stats
           /\ getStorageKey(direction, pick.card) \in DOMAIN stats
           /\ stats[getStorageKey(d, pick.card)].difficulty = "hard"
           /\ stats[getStorageKey(direction, pick.card)].lastReviewed = now

\* the cumulative walk over the groups in a given order; "default" when the
\* loop ends without a break
RECURSIVE WalkIn(_, _, _, _)
WalkIn(order, w, randomPointer, i) ==
  IF i > Len(order)
    THEN "default"
    ELSE IF randomPointer < w[order[i]]
           THEN order[i]
           ELSE WalkIn(order, w, randomPointer - w[order[i]], i + 1)

\* the number of draws r in 0..total-1 for which the walk in order gives g
Draws(order, w, g) ==
  Cardinality({r \in Pointers(totalWeight(w)) : WalkIn(order, w, r, 1) = g})

\* C25: with a draw r in 0..total-1 the walk in the order Hard, Learning,
\* New, Mastered selects group g for exactly weight[g] values of r; the same
\* holds for the walk in any other order, and no draw leaves the loop
\* without a break, so the default 'new' is never the result of a
\* fall-through.
C25_WalkSelectsByWeight ==
  pick.kind \in {"weights", "walk"} =>
    LET w == pick.weights
    IN  /\ \A g \in GroupTypes :
             Cardinality({r \in Pointers(totalWeight(w)) :
                            selectGroup(w, r) = g}) = w[g]
        /\ \A order \in Shuffles(WalkOrder) :
             /\ \A g \in GroupTypes : Draws(order, w, g) = w[g]
             /\ Draws(order, w, "default") = 0
        /\ pick.kind = "walk" =>
             /\ pick.group = WalkIn(WalkOrder, w, pick.randomPointer, 1)
             /\ w[pick.group] > 0

\* the last of the draws that select New, with all four weights positive
C25_Witness ==
  /\ pick.kind = "walk"
  /\ \A g \in GroupTypes : pick.weights[g] > 0
  /\ pick.weights["new"] > 1
  /\ pick.group = "new"
  /\ pick.randomPointer = pick.weights["hard"] + pick.weights["learning"]
                            + pick.weights["new"] - 1

\* C26: Finished is terminal.  While the component stays mounted, a step
\* taken with the finished flag set that is not a new initialization (a
\* pick timer scheduled before the finishing grade included) leaves the
\* flag set, changes neither the store nor the reviewed counter, is not a
\* grade and leaves no card gradable.
C26_FinishedIsTerminal ==
  [][(/\ sessionFinished
      /\ mounted
      /\ mounted'
      /\ pick'.kind \notin {"init", "queue", "error"})
       => /\ sessionFinished'
          /\ storage' = storage
          /\ reviewedCount' = reviewedCount
          /\ pick'.kind # "grade"
          /\ ~CardShown']_vars

\* a pick timer has fired in a finished session and has selected a card
C26_Witness ==
  /\ mounted
  /\ sessionFinished
  /\ pick.kind = "next"
  /\ pick.result # NoResult
  /\ currentCard = pick.result.item

\* C29: each presentation is graded at most once: a grading input that
\* arrives right after a grading input, before the current item has changed,
\* neither writes a record nor increments the reviewed counter.
C29_OneGradePerPresentation ==
  [][(/\ pick.kind = "grade"
      /\ pick'.kind = "grade"
      /\ currentCard' = currentCard)
       => /\ storage' = storage
          /\ reviewedCount' = reviewedCount]_vars

\* C28: when the browse view is shown, an item that has a record with the
\* grade 'hard' under direction d is in the 'Exam Cram (Mistakes)' filter
\* for d, so that the filter is empty for d only when no card is marked
\* hard in d.
C28_HardGradeIsInMistakes ==
  ~mounted =>
    \A dir \in Directions : \A lemma \in Lemmas :
      LET key == getStorageKey(dir, lemma)
      IN  (~NoRecord(statsData, key) /\ statsData[key].difficulty = "hard")
            => /\ \E i \in DOMAIN filteredItems(AllItems, dir, statsData) :
                    filteredItems(AllItems, dir, statsData)[i] = lemma
               /\ ~noMistakesRecorded(dir)

\* no pick timer is pending
Quiescent == mounted /\ ~failed /\ timers = <<>>

\* C21: in the non-adaptive modes the queue is set at initialization and no
\* grade or timer changes it; a grade has the record and counter effects it
\* has in smart_sort; in sequential mode the queue is the pool truncated to
\* the limit and the k-th presented item, shown after k-1 grading inputs,
\* is its k-th item; the session is finished exactly when as many grading
\* inputs as the queue is long have been given.
C21_StaticQueueSession ==
  [][/\ pick'.kind \in {"grade", "advance"} => staticQueue' = staticQueue
     /\ (pick'.kind = "grade" /\ recorded(pick'.difficulty))
          => LET key == getStorageKey(direction, currentCard)
             IN  /\ storage' = setItem(gradedStats(getStats(storage), key,
                                                   pick'.difficulty, now'))
                 /\ reviewedCount' = reviewedCount + 1
     /\ (pick'.kind = "grade" /\ ~recorded(pick'.difficulty))
          => storage' = storage /\ reviewedCount' = reviewedCount + 1
     /\ (Quiescent' /\ strategy' = "sequential")
          => /\ staticQueue' = sliceToLimit(items', limit')
             /\ CardShown' =>
                  /\ reviewedCount' + 1 \in DOMAIN staticQueue'
                  /\ currentCard' = staticQueue'[reviewedCount' + 1]
     /\ Quiescent'
          => (FinishedView' <=> reviewedCount' >= Len(staticQueue'))]_vars

\* GroupOfItem says Hard
classifiesHard(stats, dir, lemma) ==
  GroupOfItem(stats, getStorageKey(dir, lemma)) = "hard"

\* C27: at an initialization in hard_only mode the queue holds, each once,
\* pool items that classify as Hard in the store as it is then, all of them
\* or as many as the limit allows; no item without a record is in it; and
\* in hard_only mode no grade and no timer changes the queue, so an item
\* graded easy stays in it.
C27_HardOnlyQueue ==
  [][/\ (pick'.kind = "queue" /\ strategy' = "hard_only")
          => LET stats == getStats(storage)
                 hard == {i \in DOMAIN items' :
                            classifiesHard(stats, direction', items'[i])}
                 n == Len(staticQueue')
             IN  /\ \A k \in 1..n :
                       /\ ~NoRecord(stats, getStorageKey(direction', staticQueue'[k]))
                       /\ \E i \in hard : items'[i] = staticQueue'[k]
                 /\ \A k, m \in 1..n : staticQueue'[k] = staticQueue'[m] => k = m
                 /\ n = IF limit' = all
                          THEN Cardinality(hard)
                          ELSE Min(Cardinality(hard), CHOOSE x \in limit' : TRUE)
     /\ (strategy = "hard_only" /\ pick'.kind \in {"grade", "advance"})
          => staticQueue' = staticQueue]_vars

\* a queue cut to the limit, one of whose items has just been graded easy
C27_Witness ==
  /\ mounted
  /\ strategy = "hard_only"
  /\ limit # all
  /\ Len(staticQueue) = MaxLimit
  /\ pick.kind = "grade"
  /\ pick.difficulty = "easy"
  /\ \E k \in DOMAIN staticQueue : staticQueue[k] = pick.card
  /\ ~classifiesHard(getStats(storage), direction, pick.card)
  /\ \E lemma \in Lemmas : NoRecord(getStats(storage), getStorageKey(direction, lemma))

\* C31: in every state of the mounted component groupLastPicked[g] <= tick
\* for each of the four groups, so that tick - groupLastPicked[g] is not
\* negative before Math.max(0, ...); also after a re-initialization with a
\* pick timer of the session before still pending.
C31_LastPickedNotAfterTick ==
  (mounted /\ ~failed) => \A g \in GroupTypes : groupLastPicked[g] <= tick

\* C32: every record in a store that grading has filled from empty has
\* difficulty hard exactly when its streak is 0 and difficulty easy exactly
\* when its streak is at least 1, so 'difficulty hard or streak 0' is the
\* same as either disjunct alone; and a recorded grade writes such a record.
C32_HardIffStreakZero ==
  [][/\ \A key \in DOMAIN getStats(storage') :
          LET s == getStats(storage')[key]
          IN  /\ s.difficulty \in {"easy", "hard"}
              /\ s.difficulty = "hard" <=> s.streak = 0
              /\ s.difficulty = "easy" <=> s.streak >= 1
              /\ (s.difficulty = "hard" \/ s.streak = 0) <=> s.streak = 0
     /\ (pick'.kind = "grade" /\ recorded(pick'.difficulty)
           /\ storage' # storage)
          => LET s == getStats(storage')[getStorageKey(direction, currentCard)]
             IN  /\ s.difficulty = pick'.difficulty
                 /\ s.difficulty = "hard" <=> s.streak = 0]_vars

\* an easy grade has just been recorded with streak 1, after an earlier grade,
\* while the record of another item is hard
C32_Witness ==
  /\ pick.kind = "grade"
  /\ pick.difficulty = "easy"
  /\ LET stats == getStats(storage)
         key == getStorageKey(direction, pick.card)
     IN  /\ ~NoRecord(stats, key)
         /\ stats[key].difficulty = "easy"
         /\ stats[key].streak = 1
         /\ stats[key].lastReviewed > 1
         /\ \E other \in DOMAIN stats :
              other # key /\ stats[other].difficulty = "hard"

\* C34: in every state of the mounted component tick <= reviewedCount <=
\* tick + 1; reviewedCount = tick + 1 only when the session has been
\* finished by the limit; and reviewedCount <= limit when the limit is a
\* number.
C34_CountWithinOneOfTick ==
  (mounted /\ ~failed) =>
    /\ tick <= reviewedCount
    /\ reviewedCount <= tick + 1
    /\ reviewedCount = tick + 1
         => sessionFinished /\ limitReached(limit, reviewedCount)
    /\ limit # all => \A n \in limit : reviewedCount <= n

\* a session finished by the limit after more than one grade
C34_Witness ==
  /\ mounted
  /\ sessionFinished
  /\ limit = {MaxLimit}
  /\ reviewedCount = MaxLimit
  /\ tick = MaxLimit - 1
  /\ pick.kind = "grade"

\* activeLoadCount of the pick cycle for the props and the store as they are
activeLoadNow == Buckets(items, direction, getStats(storage)).activeLoadCount

\* C35: in a smart_sort session, when a grade creates a record for an item
\* that had none, the number of Hard and Learning items of the pool was
\* strictly below learningThreshold right before the write.
C35_NewEntersBelowThreshold ==
  [][(/\ pick'.kind = "grade"
      /\ strategy = "smart_sort"
      /\ recorded(pick'.difficulty)
      /\ NoRecord(getStats(storage), getStorageKey(direction, currentCard))
      /\ ~NoRecord(getStats(storage'), getStorageKey(direction, currentCard)))
       => activeLoadNow < learningThreshold]_vars

\* some item of the pool has a record under the direction
PoolHasRecord ==
  \E i \in DOMAIN items :
    ~NoRecord(getStats(storage), getStorageKey(direction, items[i]))

\* C36: in a smart_sort session whose pool has an item with a record under
\* the direction no pick cycle returns null; a smart_sort session with
\* limit 'all' and such a pool is never finished, and a finished smart_sort
\* session with such a pool has reached its limit.
C36_NoNullPickWithRecord ==
  (mounted /\ ~failed /\ strategy = "smart_sort" /\ PoolHasRecord) =>
    /\ (pick.kind \in {"init", "next"}
          /\ pick.cycle.items = items /\ pick.cycle.direction = direction)
         => pick.result # NoResult
    /\ limit = all => ~sessionFinished
    /\ sessionFinished => limitReached(limit, reviewedCount)

\* C37: when the timestamps of the grades increase strictly, the item graded
\* last has the largest lastReviewed of the pool; if the bucket it is in at
\* a pick holds 4 items or more, that pick does not return it.
C37_JustGradedNotReturned ==
  (pick.kind = "call" /\ pick.result # NoResult) =>
    LET c == pick.cycle
        at(x) == ReviewedAt(c.stats, getStorageKey(c.direction, x))
    IN  \A i \in DOMAIN c.items :
          LET justGraded == c.items[i]
              g == GroupOfItem(c.stats, getStorageKey(c.direction, justGraded))
          IN  (/\ ~NoRecord(c.stats, getStorageKey(c.direction, justGraded))
               /\ \A j \in DOMAIN c.items :
                    j # i => at(c.items[j]) < at(justGraded)
               /\ Len(c.groups[g]) >= 4)
                => pick.result.item # justGraded

\* a pick from a bucket of 4 whose first item in pool order is the one
\* graded last
C37_Witness ==
  /\ pick.kind = "call"
  /\ pick.result # NoResult
  /\ LET c == pick.cycle
         at(x) == ReviewedAt(c.stats, getStorageKey(c.direction, x))
         cands == c.groups[pick.result.group]
     IN  /\ Len(cands) >= 4
         /\ cands[1] = c.items[1]
         /\ \A j \in DOMAIN c.items : j # 1 => at(c.items[j]) < at(c.items[1])
         /\ \E j \in DOMAIN c.items : j # 1 /\ at(c.items[j]) > 0

\* C38: when the New group is selected, the returned item is one of the
\* first min(3, |New|) items of the pool, in pool order, that have no
\* record: every New item sorts as timestamp 0 and the sort keeps the pool
\* order among them.
C38_NewInPoolOrderWindow ==
  (pick.kind = "call" /\ pick.result # NoResult /\ pick.result.group = "new") =>
    LET c == pick.cycle
        ungraded(i) == NoRecord(c.stats, getStorageKey(c.direction, c.items[i]))
    IN  /\ \E i \in DOMAIN c.items :
             /\ c.items[i] = pick.result.item
             /\ ungraded(i)
             /\ Cardinality({j \in 1..(i - 1) : ungraded(j)}) < 3
        /\ \A k \in DOMAIN c.groups["new"] :
             ReviewedAt(c.stats, getStorageKey(c.direction, c.groups["new"][k])) = 0

\* the third of the New items of a pool of 4 that begins with a graded item
C38_Witness ==
  /\ pick.kind = "call"
  /\ pick.result # NoResult
  /\ pick.result.group = "new"
  /\ LET c == pick.cycle
     IN  /\ Len(c.groups["new"]) >= 3
         /\ Len(c.items) > Len(c.groups["new"])
         /\ ~NoRecord(c.stats, getStorageKey(c.direction, c.items[1]))
         /\ pick.result.item = c.groups["new"][3]
         /\ pick.result.item = c.items[4]

\* the records the three classifications are compared on
MaxStreak == 4
GradedRecords ==
  [difficulty : {"easy", "hard"}, lastReviewed : {1}, streak : 0..MaxStreak]

\* the name the scheduler has for a counter of the browse view
AsGroup(counter) == IF counter = "unseen" THEN "new" ELSE counter

lastGrade(key) ==
  IF key \in DOMAIN grades.last
    THEN grades.last[key][Len(grades.last[key])]
    ELSE "none"

\* C33: over any sequence of grades from an empty store, an item is
\* Mastered only if the last three grades recorded for it under the
\* direction were all easy; an item that has a record keeps having one
\* until reset-progress, so it is never New again; and a hard grade makes
\* the item Hard: a pick cycle puts every pool item whose last recorded
\* grade under its direction is hard into the Hard bucket.
C33_ClassificationFollowsGrades ==
  [][/\ \A key \in DOMAIN getStats(storage') :
          GroupOfItem(getStats(storage'), key) = "mastered"
            => /\ key \in DOMAIN grades'.last
               /\ grades'.last[key] = <<"easy", "easy", "easy">>
     /\ \A key \in DOMAIN getStats(storage) :
          pick'.kind # "reset" => ~NoRecord(getStats(storage'), key)
     /\ (pick'.kind = "grade" /\ pick'.difficulty = "hard")
          => GroupOfItem(getStats(storage'),
                         getStorageKey(direction, currentCard)) = "hard"
     /\ pick'.kind \in {"init", "next"} =>
          \A key \in DOMAIN grades.last :
            (/\ lastGrade(key) = "hard"
             /\ key[1] = pick'.cycle.direction
             /\ key[2] \in Range(pick'.cycle.items))
              => key[2] \in Range(pick'.cycle.groups["hard"])]_vars

\* a pick cycle with a Mastered item in the pool, after three easy grades
C33_Witness ==
  /\ pick.kind = "next"
  /\ pick.cycle.groups["mastered"] # <<>>
  /\ grades.last[getStorageKey(direction, pick.cycle.groups["mastered"][1])]
       = <<"easy", "easy", "easy">>

====
